---- MODULE Spec2Model ----
(***************************************************************************)
(* Model of the team analysis and the projected standings of fbb_mgr:      *)
(*   fantasy_baseball/analytics/team_analyzer.py  (TeamAnalyzer)           *)
(*   fantasy_baseball/teams/team_data.py          (TeamDataManager)        *)
(*   fantasy_baseball/import/nfbc_manual_import.py                         *)
(*                               (NFBCManualImporter.project_team_standings)*)
(*                                                                         *)
(* The store is the PostgreSQL tables the code reads: fantasy_teams,       *)
(* players, fantasy_rosters, batting_stats, pitching_stats.  One season    *)
(* is modelled.  Rates are kept as exact integers: batting_avg in          *)
(* thousandths (0.250 is 250), era and whip in hundredths (3.80 is 380),   *)
(* and every quotient the code forms is carried as a fraction num/den, so  *)
(* that int() is applied to the exact value of the expression.             *)
(***************************************************************************)
EXTENDS Integers, Sequences, FiniteSets, TLC

(***************************************************************************)
(* Bounds of the model.                                                    *)
(***************************************************************************)
NumPlayers == 4
NumTeams == 2
NumStatRows == 3
NumOtherRows == 2
NumLeagueTeams == 3
NumStandingsRows == 2
NumCallers == 2
NumReadPlayers == 2
NumReadRows == 2
MaxWrites == 1

PlayerIds == 1..NumPlayers
TeamIds == 1..NumTeams

(***************************************************************************)
(* Program constants.                                                      *)
(***************************************************************************)
teams_per_league == 15
AvgSpread == 30
EraSpread == 50
WhipSpread == 10

FantasyPositions == {"OF", "RP"}

\* players.position: 'P' makes the roster query tag the player 'pitcher',
\* anything else 'batter'.  Odd ids are outfielders, even ids pitchers.
player_position(p) == IF p % 2 = 1 THEN "OF" ELSE "P"

player_type(p) == IF player_position(p) = "P" THEN "pitcher" ELSE "batter"

NoStats == [kind |-> "none"]

\* Candidate rows of batting_stats (batting_avg in thousandths).
BattingRowTable ==
  << [kind |-> "batting", plate_appearances |-> 100, home_runs |-> 20,
      runs |-> 15, rbi |-> 8, stolen_bases |-> 0, batting_avg |-> 250],
     [kind |-> "batting", plate_appearances |-> 300, home_runs |-> 8,
      runs |-> 40, rbi |-> 20, stolen_bases |-> 12, batting_avg |-> 300],
     [kind |-> "batting", plate_appearances |-> 0, home_runs |-> 0,
      runs |-> 0, rbi |-> 0, stolen_bases |-> 0, batting_avg |-> 0],
     [kind |-> "batting", plate_appearances |-> 200, home_runs |-> 12,
      runs |-> 30, rbi |-> 40, stolen_bases |-> 0, batting_avg |-> 281] >>

\* Candidate rows of pitching_stats (era and whip in hundredths).
PitchingRowTable ==
  << [kind |-> "pitching", innings_pitched |-> 100, wins |-> 8, saves |-> 0,
      strikeouts |-> 100, era |-> 380, whip |-> 118],
     [kind |-> "pitching", innings_pitched |-> 50, wins |-> 2, saves |-> 20,
      strikeouts |-> 60, era |-> 420, whip |-> 127],
     [kind |-> "pitching", innings_pitched |-> 0, wins |-> 0, saves |-> 0,
      strikeouts |-> 0, era |-> 0, whip |-> 0],
     [kind |-> "pitching", innings_pitched |-> 200, wins |-> 12, saves |-> 0,
      strikeouts |-> 180, era |-> 300, whip |-> 105] >>

BattingRows == {BattingRowTable[i] : i \in 1..NumStatRows}
PitchingRows == {PitchingRowTable[i] : i \in 1..NumStatRows}

\* The rows of batting_stats and pitching_stats that belong to players other
\* than PlayerIds, given by what the two aggregate queries see of them: the
\* number of rows and the column sums.
OtherRowsTable ==
  << [n_bat |-> 0, home_runs |-> 0, rbi |-> 0, stolen_bases |-> 0,
      batting_avg |-> 0,
      n_pit |-> 0, wins |-> 0, saves |-> 0, strikeouts |-> 0,
      era |-> 0, whip |-> 0],
     [n_bat |-> 10, home_runs |-> 260, rbi |-> 104, stolen_bases |-> 168,
      batting_avg |-> 2600,
      n_pit |-> 10, wins |-> 104, saves |-> 280, strikeouts |-> 1300,
      era |-> 4000, whip |-> 1220],
     [n_bat |-> 4, home_runs |-> 100, rbi |-> 1000, stolen_bases |-> 0,
      batting_avg |-> 1250,
      n_pit |-> 4, wins |-> 300, saves |-> 0, strikeouts |-> 100,
      era |-> 1400, whip |-> 520] >>

OtherRowsChoices == {OtherRowsTable[i] : i \in 1..NumOtherRows}

\* Candidate values of fantasy_teams.team_name.
TeamNameTable == <<"Aces", "Bats", "Cubs", "Dogs">>

VARIABLES
  fantasy_teams,    \* team ids with a row in fantasy_teams
  team_names,       \* team id -> fantasy_teams.team_name
  fantasy_rosters,  \* set of <<team_id, player_id, position>>, is_active = TRUE
  batting_stats,    \* player id -> row of batting_stats, or NoStats
  pitching_stats,   \* player id -> row of pitching_stats, or NoStats
  other_rows,       \* aggregate of the stat rows of all other players
  pc,               \* "idle", or "returned" when analyze_team has returned
  league_avgs,      \* what _get_league_averages gave the last call
  analysis,         \* what the last analyze_team call returned
  previous,         \* what the call before it returned, when the caller
                    \* has called twice in a row
  standings,        \* what the last project_team_standings call returned
  calls             \* caller -> the analyze_team call it runs read by read

vars == <<fantasy_teams, team_names, fantasy_rosters, batting_stats,
          pitching_stats, other_rows, pc, league_avgs, analysis, previous,
          standings, calls>>

store == <<fantasy_teams, team_names, fantasy_rosters, batting_stats,
           pitching_stats, other_rows>>

(***************************************************************************)
(* Arithmetic helpers.                                                     *)
(***************************************************************************)
\* Python's int() of the exact quotient a / b for b > 0: truncation toward
\* zero.
TruncDiv(a, b) == IF a >= 0 THEN a \div b ELSE -((-a) \div b)

\* The fraction a - b of two fractions with positive denominators.
RatSub(a, b) == [num |-> a.num * b.den - b.num * a.den, den |-> a.den * b.den]

RECURSIVE SeqSum(_)
SeqSum(s) == IF s = <<>> THEN 0 ELSE Head(s) + SeqSum(Tail(s))

RECURSIVE SetSum(_, _)
SetSum(f, S) ==
  IF S = {} THEN 0
  ELSE LET x == CHOOSE y \in S : TRUE IN f[x] + SetSum(f, S \ {x})

\* The dictionary with keys S and values f[x], and the list of the first n
\* values of f, built entry by entry.
RECURSIVE DictOf(_, _)
DictOf(f, S) ==
  IF S = {} THEN <<>>
  ELSE LET x == CHOOSE y \in S : TRUE IN (x :> f[x]) @@ DictOf(f, S \ {x})

RECURSIVE ListOf(_, _)
ListOf(f, n) == IF n = 0 THEN <<>> ELSE Append(ListOf(f, n - 1), f[n])

(***************************************************************************)
(* TeamDataManager: reads of the store.                                    *)
(***************************************************************************)
\* get_team_by_id: the row of fantasy_teams, or None.
get_team_by_id(team_id) == team_id \in fantasy_teams

\* ORDER BY of the roster query: the hitters' positions (OF) first, then the
\* pitchers' (RP); rows with equal keys are taken in player id order.
PositionRank(pos) == IF pos = "OF" THEN 1 ELSE 2

RosterBefore(a, b) ==
  \/ PositionRank(a[3]) < PositionRank(b[3])
  \/ PositionRank(a[3]) = PositionRank(b[3]) /\ a[2] <= b[2]

RECURSIVE RosterQuery(_)
RosterQuery(rows) ==
  IF rows = {} THEN <<>>
  ELSE LET first == CHOOSE r \in rows : \A q \in rows : RosterBefore(r, q)
       IN  <<first>> \o RosterQuery(rows \ {first})

\* The per-player stat read of get_team_roster: batters read batting_stats,
\* pitchers pitching_stats; no row leaves stats = {}.
PlayerDict(row) ==
  [player_id |-> row[2],
   fantasy_position |-> row[3],
   player_type |-> player_type(row[2]),
   stats |-> IF player_type(row[2]) = "batter"
             THEN batting_stats[row[2]]
             ELSE pitching_stats[row[2]]]

\* get_team_roster giving None for a team without roster rows.
get_team_roster_NoneWhenEmpty(team_id) ==
  IF ~get_team_by_id(team_id) \/ {r \in fantasy_rosters : r[1] = team_id} = {}
  THEN [found |-> FALSE, team_id |-> team_id, players |-> <<>>]
  ELSE LET roster == RosterQuery({r \in fantasy_rosters : r[1] = team_id})
       IN  [found |-> TRUE, team_id |-> team_id,
            players |-> [i \in 1..Len(roster) |-> PlayerDict(roster[i])]]

\* get_team_roster: None when the team is unknown, else the team with the
\* list of its active roster players (empty when the roster query is empty).
get_team_roster(team_id) ==
  IF ~get_team_by_id(team_id)
  THEN [found |-> FALSE, team_id |-> team_id, players |-> <<>>]
  ELSE LET roster == RosterQuery({r \in fantasy_rosters : r[1] = team_id})
       IN  [found |-> TRUE, team_id |-> team_id,
            players |-> [i \in 1..Len(roster) |-> PlayerDict(roster[i])]]

(***************************************************************************)
(* TeamAnalyzer._get_league_averages                                       *)
(***************************************************************************)
BattingPlayers == {p \in PlayerIds : batting_stats[p].kind = "batting"}
PitchingPlayers == {p \in PlayerIds : pitching_stats[p].kind = "pitching"}

\* SUM(col) FROM batting_stats; NULL (no rows) is falsy like 0.
BattingSum(col) ==
  SetSum([p \in BattingPlayers |-> batting_stats[p][col]], BattingPlayers)
    + other_rows[col]

PitchingSum(col) ==
  SetSum([p \in PitchingPlayers |-> pitching_stats[p][col]], PitchingPlayers)
    + other_rows[col]

BattingCount == Cardinality(BattingPlayers) + other_rows.n_bat
PitchingCount == Cardinality(PitchingPlayers) + other_rows.n_pit

Zero == [num |-> 0, den |-> 1]

\* A baseline that falls back to 1 / teams_per_league for an empty total.
PerTeam_NeverZero(total) ==
  [num |-> IF total # 0 THEN total ELSE 1, den |-> teams_per_league]

\* total / teams_per_league if total else 0
PerTeam(total) ==
  IF total # 0 THEN [num |-> total, den |-> teams_per_league] ELSE Zero

\* AVG(col): the plain average over the rows, 0 when NULL or 0.
PlainAvg(total, count) ==
  IF count > 0 /\ total # 0 THEN [num |-> total, den |-> count] ELSE Zero

EmptyDict == [c \in {} |-> Zero]

\* The row of batting_query: three SUMs and AVG(batting_avg).
batting_query ==
  [home_runs |-> BattingSum("home_runs"),
   rbi |-> BattingSum("rbi"),
   stolen_bases |-> BattingSum("stolen_bases"),
   batting_avg |-> PlainAvg(BattingSum("batting_avg"), BattingCount)]

\* The row of pitching_query: three SUMs, AVG(era) and AVG(whip).
pitching_query ==
  [wins |-> PitchingSum("wins"),
   saves |-> PitchingSum("saves"),
   strikeouts |-> PitchingSum("strikeouts"),
   era |-> PlainAvg(PitchingSum("era"), PitchingCount),
   whip |-> PlainAvg(PitchingSum("whip"), PitchingCount)]

\* "Combine into single dictionary": each value a fraction.
combine_league_avgs(batting_row, pitching_row) ==
  [home_runs |-> PerTeam(batting_row.home_runs),
   rbi |-> PerTeam(batting_row.rbi),
   stolen_bases |-> PerTeam(batting_row.stolen_bases),
   batting_avg |-> batting_row.batting_avg,
   wins |-> PerTeam(pitching_row.wins),
   saves |-> PerTeam(pitching_row.saves),
   strikeouts |-> PerTeam(pitching_row.strikeouts),
   era |-> pitching_row.era,
   whip |-> pitching_row.whip]

\* The dictionary of league averages; {} when one of the two queries raises.
get_league_averages(query_fails) ==
  IF query_fails THEN EmptyDict
  ELSE combine_league_avgs(batting_query, pitching_query)

\* league_avgs.get(cat) is truthy
HasBaseline(avgs, cat) ==
  cat \in DOMAIN avgs /\ avgs[cat].num # 0

(***************************************************************************)
(* TeamAnalyzer._analyze_categories                                        *)
(***************************************************************************)
IsBatter(p) == p.stats.kind = "batting"
IsPitcher(p) == p.stats.kind = "pitching"

\* df[col].sum()
ColumnSum(rows, col) == SeqSum([i \in 1..Len(rows) |-> rows[i].stats[col]])

\* (df[rate] * df[weight]).sum() / df[weight].sum(), as a fraction; den = 0
\* is the NaN of 0 / 0.
WeightedRate(rows, rate, weight) ==
  [num |-> SeqSum([i \in 1..Len(rows) |->
                     rows[i].stats[rate] * rows[i].stats[weight]]),
   den |-> ColumnSum(rows, weight)]

\* Clamp without the max(1, .) of the code.
Clamp_NoLowerBound(r) == IF r > 10 THEN 10 ELSE r

\* max(1, min(10, r))
Clamp(r) == IF r > 10 THEN 10 ELSE IF r < 1 THEN 1 ELSE r

\* The counting rating centred on the baseline: a team at the baseline gets
\* 5, a team below it less.
CountingRating_Centred(total, baseline) ==
  Clamp(TruncDiv((total * baseline.den - baseline.num) * 5, baseline.num) + 5)

\* The counting rating without the + 5 offset.
CountingRating_NoOffset(total, baseline) ==
  Clamp(TruncDiv(total * baseline.den * 5, baseline.num))

\* min(10, int((total / baseline) * 5) + 5), then max(1, .)
CountingRating(total, baseline) ==
  Clamp(TruncDiv(total * baseline.den * 5, baseline.num) + 5)

\* The spread rating with floor in the place of int().
SpreadRating_Floor(diff, spread) ==
  Clamp(((diff.num * 5) \div (spread * diff.den)) + 5)

\* min(10, int((diff / spread) * 5) + 5), then max(1, .), diff a fraction
SpreadRating(diff, spread) ==
  Clamp(TruncDiv(diff.num * 5, spread * diff.den) + 5)

\* batting average: higher is better
AvgRating(team_avg, baseline) == SpreadRating(RatSub(team_avg, baseline), AvgSpread)

\* ERA rated as if higher were better.
EraRating_HigherIsBetter(team_era, baseline) ==
  SpreadRating(RatSub(team_era, baseline), EraSpread)

\* ERA and WHIP: lower is better
EraRating(team_era, baseline) == SpreadRating(RatSub(baseline, team_era), EraSpread)

WhipRating(team_whip, baseline) == SpreadRating(RatSub(baseline, team_whip), WhipSpread)

HittingCounting == {"home_runs", "rbi", "stolen_bases"}
PitchingCounting == {"wins", "saves", "strikeouts"}
Categories == HittingCounting \cup PitchingCounting \cup {"batting_avg", "era", "whip"}

\* int() of a NaN raises ValueError: a weighted rate with weight sum 0 that
\* is rated against a baseline.
RatingRaises(batters, pitchers, avgs) ==
  \/ /\ batters # <<>>
     /\ ColumnSum(batters, "plate_appearances") = 0
     /\ HasBaseline(avgs, "batting_avg")
  \/ /\ pitchers # <<>>
     /\ ColumnSum(pitchers, "innings_pitched") = 0
     /\ HasBaseline(avgs, "era") \/ HasBaseline(avgs, "whip")

\* Counting categories rated from a total of 0 when the team has no player
\* with stats of the type.
RatedCategories_CountingWithoutPlayers(batters, pitchers, avgs) ==
  {c \in Categories :
     /\ HasBaseline(avgs, c)
     /\ \/ c \in HittingCounting \cup PitchingCounting
        \/ IF c = "batting_avg" THEN batters # <<>> ELSE pitchers # <<>>}

\* The categories that get a rating: the hitting ones only with a batter that
\* has stats, the pitching ones only with such a pitcher, each only with a
\* truthy baseline.
RatedCategories(batters, pitchers, avgs) ==
  {c \in Categories :
     /\ HasBaseline(avgs, c)
     /\ IF c \in HittingCounting \cup {"batting_avg"}
        THEN batters # <<>> ELSE pitchers # <<>>}

CategoryRating(c, batters, pitchers, avgs) ==
  CASE c \in HittingCounting ->
         CountingRating(ColumnSum(batters, c), avgs[c])
    [] c \in PitchingCounting ->
         CountingRating(ColumnSum(pitchers, c), avgs[c])
    [] c = "batting_avg" ->
         AvgRating(WeightedRate(batters, "batting_avg", "plate_appearances"),
                   avgs[c])
    [] c = "era" ->
         EraRating(WeightedRate(pitchers, "era", "innings_pitched"),
                   avgs[c])
    [] c = "whip" ->
         WhipRating(WeightedRate(pitchers, "whip", "innings_pitched"),
                    avgs[c])

\* The ratings dictionary, or raised = TRUE when the method raises.
analyze_categories(team_data, avgs) ==
  LET batters == SelectSeq(team_data.players, IsBatter)
      pitchers == SelectSeq(team_data.players, IsPitcher)
  IN  IF RatingRaises(batters, pitchers, avgs)
      THEN [raised |-> TRUE, ratings |-> [c \in {} |-> 0]]
      ELSE [raised |-> FALSE,
            ratings |-> [c \in RatedCategories(batters, pitchers, avgs)
                           |-> CategoryRating(c, batters, pitchers, avgs)]]

(***************************************************************************)
(* TeamAnalyzer._get_roster_breakdown                                      *)
(***************************************************************************)
\* positions[pos] = number of roster players at pos; only positions that
\* occur are keys.
get_roster_breakdown(team_data) ==
  LET players == team_data.players
      present == {players[i].fantasy_position : i \in 1..Len(players)}
  IN  [pos \in present |->
         Cardinality({i \in 1..Len(players) : players[i].fantasy_position = pos})]

(***************************************************************************)
(* Strengths and weaknesses (analyze_team)                                 *)
(***************************************************************************)
\* Insertion order of the ratings dictionary.
CategoryOrder ==
  <<"home_runs", "rbi", "stolen_bases", "batting_avg",
    "era", "whip", "wins", "saves", "strikeouts">>

RECURSIVE FilterSeq(_, _)
FilterSeq(s, keep) ==
  IF s = <<>> THEN <<>>
  ELSE (IF Head(s) \in keep THEN <<Head(s)>> ELSE <<>>) \o FilterSeq(Tail(s), keep)

\* Strengths taken as rating > 8.
team_strengths_Above8(ratings) ==
  FilterSeq(CategoryOrder, {c \in DOMAIN ratings : ratings[c] > 8})

team_strengths(ratings) ==
  FilterSeq(CategoryOrder, {c \in DOMAIN ratings : ratings[c] >= 8})

team_weaknesses(ratings) ==
  FilterSeq(CategoryOrder, {c \in DOMAIN ratings : ~(ratings[c] >= 8) /\ ratings[c] <= 4})

(***************************************************************************)
(* TeamAnalyzer._generate_recommendations                                  *)
(***************************************************************************)
RecOutfielders == "Need to add more outfielders"
RecRelievers == "Add more relievers to compete in saves"
RecSpeed == "Target speed players to improve stolen bases category"
RecClosers == "Add closers to improve in the saves category"
RecRatios == "Consider streaming only high-quality pitchers to improve ratios"
RecAverage == "Look for high-average hitters to improve batting average"
RecTradeStrengths == "Consider trading from your strengths to address weaknesses"
RecPitchingForHitting == "Consider trading pitching for hitting help"
RecHittingForPitching == "Consider trading hitting for pitching help"

pitching_cats == {"era", "whip", "strikeouts", "wins", "saves"}
hitting_cats == {"batting_avg", "home_runs", "rbi", "stolen_bases"}

Range(s) == {s[i] : i \in 1..Len(s)}

When(cond, text) == IF cond THEN <<text>> ELSE <<>>

\* 'OF' in breakdown and breakdown['OF'] < 3
NeedsOutfielders(breakdown) == "OF" \in DOMAIN breakdown /\ breakdown["OF"] < 3

\* 'RP' in breakdown and breakdown['RP'] < 2
NeedsRelievers(breakdown) == "RP" \in DOMAIN breakdown /\ breakdown["RP"] < 2

\* The two recommendations of the rule exchanged.
CrossTrade_Swapped(strengths, weaknesses) ==
  LET pitching_strengths == FilterSeq(strengths, pitching_cats)
      hitting_strengths == FilterSeq(strengths, hitting_cats)
      pitching_weaknesses == FilterSeq(weaknesses, pitching_cats)
      hitting_weaknesses == FilterSeq(weaknesses, hitting_cats)
  IN  IF Len(pitching_strengths) >= 3 /\ Len(hitting_weaknesses) >= 2
      THEN <<RecHittingForPitching>>
      ELSE IF Len(hitting_strengths) >= 3 /\ Len(pitching_weaknesses) >= 2
           THEN <<RecPitchingForHitting>>
           ELSE <<>>

\* The two cross-discipline rules as two independent ifs.
CrossTrade_BothIfs(strengths, weaknesses) ==
  LET pitching_strengths == FilterSeq(strengths, pitching_cats)
      hitting_strengths == FilterSeq(strengths, hitting_cats)
      pitching_weaknesses == FilterSeq(weaknesses, pitching_cats)
      hitting_weaknesses == FilterSeq(weaknesses, hitting_cats)
  IN  When(Len(pitching_strengths) >= 3 /\ Len(hitting_weaknesses) >= 2,
           RecPitchingForHitting)
      \o When(Len(hitting_strengths) >= 3 /\ Len(pitching_weaknesses) >= 2,
             RecHittingForPitching)

\* if pitching strengths >= 3 and hitting weaknesses >= 2 ... elif ...
CrossTrade(strengths, weaknesses) ==
  LET pitching_strengths == FilterSeq(strengths, pitching_cats)
      hitting_strengths == FilterSeq(strengths, hitting_cats)
      pitching_weaknesses == FilterSeq(weaknesses, pitching_cats)
      hitting_weaknesses == FilterSeq(weaknesses, hitting_cats)
  IN  IF Len(pitching_strengths) >= 3 /\ Len(hitting_weaknesses) >= 2
      THEN <<RecPitchingForHitting>>
      ELSE IF Len(hitting_strengths) >= 3 /\ Len(pitching_weaknesses) >= 2
           THEN <<RecHittingForPitching>>
           ELSE <<>>

\* The recommendations with the reliever rule as an elif of the outfielder
\* rule.
generate_recommendations_Elif(breakdown, strengths, weaknesses) ==
  When(NeedsOutfielders(breakdown), RecOutfielders)
  \o When(~NeedsOutfielders(breakdown) /\ NeedsRelievers(breakdown), RecRelievers)
  \o When("stolen_bases" \in Range(weaknesses), RecSpeed)
  \o When("saves" \in Range(weaknesses), RecClosers)
  \o When("era" \in Range(weaknesses) /\ "whip" \in Range(weaknesses), RecRatios)
  \o When("batting_avg" \in Range(weaknesses), RecAverage)
  \o When(Len(strengths) > Len(weaknesses) + 2, RecTradeStrengths)
  \o CrossTrade(strengths, weaknesses)

generate_recommendations(breakdown, strengths, weaknesses) ==
  When(NeedsOutfielders(breakdown), RecOutfielders)
  \o When(NeedsRelievers(breakdown), RecRelievers)
  \o When("stolen_bases" \in Range(weaknesses), RecSpeed)
  \o When("saves" \in Range(weaknesses), RecClosers)
  \o When("era" \in Range(weaknesses) /\ "whip" \in Range(weaknesses), RecRatios)
  \o When("batting_avg" \in Range(weaknesses), RecAverage)
  \o When(Len(strengths) > Len(weaknesses) + 2, RecTradeStrengths)
  \o CrossTrade(strengths, weaknesses)

(***************************************************************************)
(* TeamAnalyzer.analyze_team                                               *)
(***************************************************************************)
NoBreakdown == [pos \in {} |-> 0]
NoRatings == [c \in {} |-> 0]

Returned(status, team_id, breakdown, ratings, strengths, weaknesses, actions) ==
  [status |-> status, team_id |-> team_id, roster_breakdown |-> breakdown,
   category_analysis |-> ratings, team_strengths |-> strengths,
   team_weaknesses |-> weaknesses, recommended_actions |-> actions]

NoCall == Returned("none", 0, NoBreakdown, NoRatings, <<>>, <<>>, <<>>)

\* What analyze_team(team_id) gives its caller: status "absent" is None,
\* "raised" an exception out of _analyze_categories, "ok" the analysis.
Absent(team_id) ==
  Returned("absent", team_id, NoBreakdown, NoRatings, <<>>, <<>>, <<>>)

Raised(team_id) ==
  Returned("raised", team_id, NoBreakdown, NoRatings, <<>>, <<>>, <<>>)

\* The part of analyze_team after get_team_roster has given a team.
build_analysis(team_data, avgs) ==
  LET breakdown == get_roster_breakdown(team_data)
      cats == analyze_categories(team_data, avgs)
      strengths == team_strengths(cats.ratings)
      weaknesses == team_weaknesses(cats.ratings)
  IN  IF cats.raised
      THEN Raised(team_data.team_id)
      ELSE Returned("ok", team_data.team_id, breakdown, cats.ratings, strengths,
                    weaknesses,
                    generate_recommendations(breakdown, strengths, weaknesses))

analyze_team(team_id, avgs) ==
  LET team_data == get_team_roster(team_id)
  IN  IF ~team_data.found
      THEN Absent(team_id)
      ELSE build_analysis(team_data, avgs)

(***************************************************************************)
(* The state machine.                                                      *)
(***************************************************************************)
NoPrevious == [status |-> "none"]
NoStandings == [status |-> "none"]

\* The callers that can run analyze_team at the same time, each on its own
\* thread with its own pooled connection.
Callers == 1..NumCallers

\* A caller that runs no call.  The fields of a running call: where it is
\* (pc), the rows of the roster query, the player dictionaries loaded so far,
\* the batting_query row, the reads that raised, what came back; and, kept
\* for the properties only, how many writes were committed during the call,
\* the analysis one read of each store state of the call would have given,
\* and whether a write was committed since that set was brought up to date
\* (stale).
IdleCall ==
  [pc |-> "idle", team_id |-> 0, roster |-> <<>>, players |-> <<>>,
   batting_row |-> <<>>, league_avgs |-> EmptyDict, faults |-> {},
   result |-> NoCall, writes |-> 0, stale |-> FALSE, atomic |-> {}]

NoCalls == [c \in Callers |-> IdleCall]

Init ==
  /\ fantasy_teams = {1}
  /\ team_names = [t \in fantasy_teams |-> TeamNameTable[t]]
  /\ fantasy_rosters = {}
  /\ batting_stats \in
       [PlayerIds -> BattingRows \cup {NoStats}]
  /\ \A p \in PlayerIds : player_type(p) = "pitcher" => batting_stats[p] = NoStats
  /\ pitching_stats \in
       [PlayerIds -> PitchingRows \cup {NoStats}]
  /\ \A p \in PlayerIds : player_type(p) = "batter" => pitching_stats[p] = NoStats
  /\ other_rows \in OtherRowsChoices
  /\ pc = "idle"
  /\ league_avgs = EmptyDict
  /\ analysis = NoCall
  /\ previous = NoPrevious
  /\ standings = NoStandings
  /\ calls = NoCalls

\* TeamDataManager.add_player_to_team: insert, or update the position of the
\* row with the same (team_id, player_id).
add_player_to_team(team_id, player_id, position) ==
  /\ pc = "idle"
  /\ fantasy_rosters' =
       {r \in fantasy_rosters : ~(r[1] = team_id /\ r[2] = player_id)}
         \cup {<<team_id, player_id, position>>}
  /\ UNCHANGED <<fantasy_teams, team_names, batting_stats, pitching_stats,
                 other_rows, pc, league_avgs, analysis, previous, standings>>

\* TeamDataManager.remove_player_from_team
remove_player_from_team(team_id, player_id) ==
  /\ pc = "idle"
  /\ \E r \in fantasy_rosters : r[1] = team_id /\ r[2] = player_id
  /\ fantasy_rosters' =
       {r \in fantasy_rosters : ~(r[1] = team_id /\ r[2] = player_id)}
  /\ UNCHANGED <<fantasy_teams, team_names, batting_stats, pitching_stats,
                 other_rows, pc, league_avgs, analysis, previous, standings>>

\* A call of TeamAnalyzer.analyze_team, from its first read to its return.
\* _get_league_averages is called (by _analyze_categories) only when the
\* team was found; query_fails says whether one of its two queries raises.
AnalyzeTeam(team_id, query_fails) ==
  /\ pc = "idle"
  /\ league_avgs' = IF get_team_by_id(team_id)
                    THEN get_league_averages(query_fails) ELSE EmptyDict
  /\ analysis' = analyze_team(team_id, league_avgs')
  /\ pc' = "returned"
  /\ UNCHANGED <<store, previous, standings, calls>>

\* The caller takes the result; the next call can start.
TakeResult ==
  /\ pc # "idle"
  /\ pc' = "idle"
  /\ league_avgs' = EmptyDict
  /\ analysis' = NoCall
  /\ previous' = NoPrevious
  /\ standings' = NoStandings
  /\ UNCHANGED <<store, calls>>

Next ==
  \/ \E t \in fantasy_teams, p \in PlayerIds, pos \in FantasyPositions :
       add_player_to_team(t, p, pos) /\ UNCHANGED calls
  \/ \E t \in fantasy_teams, p \in PlayerIds :
       remove_player_from_team(t, p) /\ UNCHANGED calls
  \/ \E t \in TeamIds, f \in BOOLEAN : AnalyzeTeam(t, f)
  \/ TakeResult

Spec == Init /\ [][Next]_vars

(***************************************************************************)
(* What the properties below speak about: the call that has just returned  *)
(* and the store it read (the store does not change while pc is            *)
(* "returned").                                                            *)
(***************************************************************************)
ReturnedOk == pc = "returned" /\ analysis.status = "ok"

Ratings == analysis.category_analysis

CallBatters == SelectSeq(get_team_roster(analysis.team_id).players, IsBatter)
CallPitchers == SelectSeq(get_team_roster(analysis.team_id).players, IsPitcher)

CountingCategories == HittingCounting \cup PitchingCounting

\* The team's total and the league's total of a counting category.
TeamTotal(c) ==
  IF c \in HittingCounting THEN ColumnSum(CallBatters, c) ELSE ColumnSum(CallPitchers, c)

LeagueTotal(c) ==
  IF c \in HittingCounting \cup {"batting_avg"} THEN BattingSum(c) ELSE PitchingSum(c)

\* C1: every rating in the category map of a returned analysis is an
\* integer between 1 and 10.
C1_RatingsInRange ==
  ReturnedOk => \A c \in DOMAIN Ratings : Ratings[c] \in 1..10

\* C1 witness: an analysis with a counting category rated at team total 0,
\* a category rated 1 (far below the baseline) and one rated 10.
C1_Witness ==
  /\ ReturnedOk
  /\ \E c \in DOMAIN Ratings : c \in CountingCategories /\ TeamTotal(c) = 0
  /\ \E c \in DOMAIN Ratings : Ratings[c] = 1
  /\ \E c \in DOMAIN Ratings : Ratings[c] = 10

\* The team's total equals the league baseline (league total / 15).
AtBaseline(c) == teams_per_league * TeamTotal(c) = LeagueTotal(c)

\* C2: a team whose total of a counting category equals the nonzero league
\* baseline is rated 5 in that category.
C2_AtBaselineRatedFive ==
  ReturnedOk =>
    \A c \in DOMAIN Ratings :
      (c \in CountingCategories /\ AtBaseline(c)) => Ratings[c] = 5

\* C3: the rating of a counting category is
\* clamp(1, 10, floor((team_total / baseline) * 5) + 5), the baseline being
\* the league total divided by 15.
C3_CountingFormula ==
  ReturnedOk =>
    \A c \in DOMAIN Ratings :
      c \in CountingCategories =>
        LET v == ((TeamTotal(c) * teams_per_league * 5) \div LeagueTotal(c)) + 5
        IN  Ratings[c] = IF v < 1 THEN 1 ELSE IF v > 10 THEN 10 ELSE v

\* C3 witness: home runs at baseline 20 (league total 300) and team total 40
\* are rated 10, and another counting category is rated strictly between 5
\* and 10.
C3_Witness ==
  /\ ReturnedOk
  /\ "home_runs" \in DOMAIN Ratings
  /\ TeamTotal("home_runs") = 40
  /\ LeagueTotal("home_runs") = 300
  /\ Ratings["home_runs"] = 10
  /\ \E c \in DOMAIN Ratings :
       c \in CountingCategories /\ Ratings[c] > 5 /\ Ratings[c] < 10

\* Truncation toward zero of num / den (den > 0), said with floor: the floor,
\* plus one when the quotient is negative and not an integer.
TowardZero(num, den) ==
  LET f == num \div den
  IN  IF num < 0 /\ f * den # num THEN f + 1 ELSE f

Clamped(v) == IF v < 1 THEN 1 ELSE IF v > 10 THEN 10 ELSE v

\* (team_rate - baseline_rate) / 0.030 * 5 as the fraction AvgScaledNum /
\* AvgScaledDen: the team rate is the plate-appearance weighted average, the
\* baseline the plain average of batting_avg over the league's rows.
TeamAvg == WeightedRate(CallBatters, "batting_avg", "plate_appearances")

AvgScaledNum ==
  5 * (TeamAvg.num * BattingCount - BattingSum("batting_avg") * TeamAvg.den)

AvgScaledDen == 30 * TeamAvg.den * BattingCount

\* C4 as stated: the batting average rating is
\* clamp(1, 10, floor(((team_rate - baseline_rate) / 0.030) * 5) + 5), also
\* below the baseline.
C4_AvgFloorFormula ==
  (ReturnedOk /\ "batting_avg" \in DOMAIN Ratings) =>
    Ratings["batting_avg"] = Clamped((AvgScaledNum \div AvgScaledDen) + 5)

\* C4 amended: the batting average rating is
\* clamp(1, 10, t + 5) with t the scaled difference truncated toward zero.
C4_AvgTruncFormula ==
  (ReturnedOk /\ "batting_avg" \in DOMAIN Ratings) =>
    Ratings["batting_avg"] = Clamped(TowardZero(AvgScaledNum, AvgScaledDen) + 5)

\* C4 witness: a team rate below the baseline whose scaled difference is a
\* negative non-integer, rated strictly between 1 and 5.
C4_Witness ==
  /\ ReturnedOk
  /\ "batting_avg" \in DOMAIN Ratings
  /\ AvgScaledNum < 0
  /\ (AvgScaledNum \div AvgScaledDen) * AvgScaledDen # AvgScaledNum
  /\ Ratings["batting_avg"] > 1
  /\ Ratings["batting_avg"] < 5

\* The team's innings-weighted ERA and WHIP, and the pitching staffs a team
\* could have instead: one or two pitchers with rows of pitching_stats and
\* innings pitched.
TeamEra == WeightedRate(CallPitchers, "era", "innings_pitched")
TeamWhip == WeightedRate(CallPitchers, "whip", "innings_pitched")

OtherStaffs ==
  {st \in {<<[stats |-> r]>> : r \in PitchingRows}
           \cup {<<[stats |-> r], [stats |-> q]>> : r \in PitchingRows, q \in PitchingRows} :
     ColumnSum(st, "innings_pitched") > 0}

RateLeq(a, b) == a.num * b.den <= b.num * a.den

\* (baseline - team) / spread * 5 for a lower-is-better rate, as num / den.
LowerScaledNum(team, col) ==
  5 * (PitchingSum(col) * team.den - team.num * PitchingCount)

LowerScaledDen(team, spread) == spread * PitchingCount * team.den

\* C5: ERA and WHIP are rated from (baseline - team) with spread 0.50 and
\* 0.10, and a staff with a lower or equal weighted ERA (WHIP) is rated at
\* least as high against the same baseline, one with a higher or equal rate
\* at most as high.
C5_LowerIsBetter ==
  ReturnedOk =>
    /\ "era" \in DOMAIN Ratings =>
         /\ Ratings["era"] =
              Clamped(TowardZero(LowerScaledNum(TeamEra, "era"),
                                 LowerScaledDen(TeamEra, 50)) + 5)
         /\ \A st \in OtherStaffs :
              LET e == WeightedRate(st, "era", "innings_pitched")
              IN  /\ RateLeq(e, TeamEra) =>
                       EraRating(e, league_avgs["era"]) >= Ratings["era"]
                  /\ RateLeq(TeamEra, e) =>
                       EraRating(e, league_avgs["era"]) <= Ratings["era"]
    /\ "whip" \in DOMAIN Ratings =>
         /\ Ratings["whip"] =
              Clamped(TowardZero(LowerScaledNum(TeamWhip, "whip"),
                                 LowerScaledDen(TeamWhip, 10)) + 5)
         /\ \A st \in OtherStaffs :
              LET w == WeightedRate(st, "whip", "innings_pitched")
              IN  /\ RateLeq(w, TeamWhip) =>
                       WhipRating(w, league_avgs["whip"]) >= Ratings["whip"]
                  /\ RateLeq(TeamWhip, w) =>
                       WhipRating(w, league_avgs["whip"]) <= Ratings["whip"]

\* C5 witness: a rated staff of two pitchers, and another staff with a
\* strictly lower ERA that is rated strictly higher in ERA.
C5_Witness ==
  /\ ReturnedOk
  /\ "era" \in DOMAIN Ratings
  /\ "whip" \in DOMAIN Ratings
  /\ Len(CallPitchers) = 2
  /\ \E st \in OtherStaffs :
       LET e == WeightedRate(st, "era", "innings_pitched")
       IN  /\ ~RateLeq(TeamEra, e)
           /\ EraRating(e, league_avgs["era"]) > Ratings["era"]

\* C6: a category whose league baseline is zero (no league total) or absent
\* (the league queries failed) gets no rating.
C6_NoBaselineNoRating ==
  ReturnedOk =>
    \A c \in Categories :
      (c \notin DOMAIN league_avgs \/ LeagueTotal(c) = 0) => c \notin DOMAIN Ratings

\* C6 witness: a team with batters that have stats, rated in one hitting
\* category and unrated in another whose league total is zero.
C6_Witness ==
  /\ ReturnedOk
  /\ CallBatters # <<>>
  /\ \E c \in hitting_cats : c \in DOMAIN Ratings
  /\ \E c \in hitting_cats :
       c \in DOMAIN league_avgs /\ LeagueTotal(c) = 0 /\ c \notin DOMAIN Ratings

\* The elements of a list are pairwise different.
NoDuplicates(s) == \A i, j \in 1..Len(s) : s[i] = s[j] => i = j

\* C7: the strengths are exactly the categories rated 8 or more, the
\* weaknesses exactly those rated 4 or less, no category is in both lists,
\* and a category rated 5, 6 or 7 is in neither.
C7_StrengthsWeaknesses ==
  ReturnedOk =>
    /\ Range(analysis.team_strengths) = {c \in DOMAIN Ratings : Ratings[c] >= 8}
    /\ Range(analysis.team_weaknesses) = {c \in DOMAIN Ratings : Ratings[c] <= 4}
    /\ NoDuplicates(analysis.team_strengths)
    /\ NoDuplicates(analysis.team_weaknesses)
    /\ Range(analysis.team_strengths) \cap Range(analysis.team_weaknesses) = {}
    /\ \A c \in DOMAIN Ratings :
         Ratings[c] \in 5..7 =>
           c \notin Range(analysis.team_strengths) \cup Range(analysis.team_weaknesses)

\* C7 witness: an analysis with a category rated exactly 8, one rated
\* exactly 4, and one rated between 5 and 7.
C7_Witness ==
  /\ ReturnedOk
  /\ \E c \in DOMAIN Ratings : Ratings[c] = 8
  /\ \E c \in DOMAIN Ratings : Ratings[c] = 4
  /\ \E c \in DOMAIN Ratings : Ratings[c] \in 5..7

Recs == analysis.recommended_actions

\* The number of active roster rows of the analysed team at a position.
SlotCount(pos) ==
  Cardinality({r \in fantasy_rosters : r[1] = analysis.team_id /\ r[3] = pos})

\* C8: with 0 OF slots and 0 RP slots the list has the outfielder
\* recommendation followed by the reliever recommendation; the outfielder
\* recommendation is emitted whenever there are fewer than 3 OF slots, the
\* reliever recommendation whenever there are fewer than 2 RP slots.
C8_RosterRecommendations ==
  ReturnedOk =>
    /\ (SlotCount("OF") = 0 /\ SlotCount("RP") = 0) =>
         \E i, j \in 1..Len(Recs) :
           i < j /\ Recs[i] = RecOutfielders /\ Recs[j] = RecRelievers
    /\ SlotCount("OF") < 3 => RecOutfielders \in Range(Recs)
    /\ SlotCount("RP") < 2 => RecRelievers \in Range(Recs)

\* C9: for a team that exists and has no active roster rows, analyze_team
\* returns an analysis (not None, no exception) whose roster breakdown,
\* rating map, strengths and weaknesses are empty.
C9_EmptyRosterAnalysis ==
  (/\ pc = "returned"
   /\ analysis.team_id \in fantasy_teams
   /\ {r \in fantasy_rosters : r[1] = analysis.team_id} = {}) =>
    /\ analysis.status = "ok"
    /\ DOMAIN analysis.roster_breakdown = {}
    /\ DOMAIN analysis.category_analysis = {}
    /\ analysis.team_strengths = <<>>
    /\ analysis.team_weaknesses = <<>>

\* C9 witness: the analysis of an existing team without roster rows has
\* returned, in a league with nonzero baselines.
C9_Witness ==
  /\ pc = "returned"
  /\ analysis.team_id \in fantasy_teams
  /\ {r \in fantasy_rosters : r[1] = analysis.team_id} = {}
  /\ analysis.status = "ok"
  /\ HasBaseline(league_avgs, "home_runs")
  /\ HasBaseline(league_avgs, "era")

\* The rules in the order the code evaluates them; the last two strings
\* belong to the one cross-discipline rule.
RuleOrder ==
  <<RecOutfielders, RecRelievers, RecSpeed, RecClosers, RecRatios, RecAverage,
    RecTradeStrengths, RecPitchingForHitting, RecHittingForPitching>>

RuleIndex(text) == CHOOSE i \in 1..Len(RuleOrder) : RuleOrder[i] = text

Weak(c) == c \in Range(analysis.team_weaknesses)

\* C10: the recommendations are strings of the rules, each at most once, in
\* the rule order, at most one of the two cross-discipline strings; and each
\* of the first seven rules has emitted its string exactly when its own
\* condition holds of the analysis.
C10_RuleOrder ==
  ReturnedOk =>
    /\ Range(Recs) \subseteq Range(RuleOrder)
    /\ \A i, j \in 1..Len(Recs) : i < j => RuleIndex(Recs[i]) < RuleIndex(Recs[j])
    /\ ~(RecPitchingForHitting \in Range(Recs) /\ RecHittingForPitching \in Range(Recs))
    /\ RecOutfielders \in Range(Recs) <=>
         ("OF" \in DOMAIN analysis.roster_breakdown /\ analysis.roster_breakdown["OF"] < 3)
    /\ RecRelievers \in Range(Recs) <=>
         ("RP" \in DOMAIN analysis.roster_breakdown /\ analysis.roster_breakdown["RP"] < 2)
    /\ RecSpeed \in Range(Recs) <=> Weak("stolen_bases")
    /\ RecClosers \in Range(Recs) <=> Weak("saves")
    /\ RecRatios \in Range(Recs) <=> (Weak("era") /\ Weak("whip"))
    /\ RecAverage \in Range(Recs) <=> Weak("batting_avg")
    /\ RecTradeStrengths \in Range(Recs) <=>
         (Len(analysis.team_strengths) > Len(analysis.team_weaknesses) + 2)

\* C10 witness: an analysis where the outfielder, reliever, ratio and batting
\* average rules have all fired.
C10_Witness ==
  /\ ReturnedOk
  /\ {RecOutfielders, RecRelievers, RecRatios, RecAverage} \subseteq Range(Recs)


(***************************************************************************)
(* A direct call of TeamAnalyzer._generate_recommendations.  Its arguments *)
(* are any roster breakdown and any two category lists; analyze_team is    *)
(* one caller, and passes lists that never share a category.               *)
(***************************************************************************)
StrengthArgCats ==
  {"home_runs", "stolen_bases", "batting_avg", "era", "whip", "saves"}
WeaknessArgCats == {"stolen_bases", "batting_avg", "era", "whip"}
BreakdownArgs == {NoBreakdown, [pos \in FantasyPositions |-> 1]}

Args(breakdown, strengths, weaknesses) ==
  Returned("args", 0, breakdown, NoRatings, strengths, weaknesses, <<>>)

NoPlayerStats == [p \in PlayerIds |-> NoStats]

InitRecommend ==
  /\ fantasy_teams = {}
  /\ team_names = [t \in fantasy_teams |-> TeamNameTable[t]]
  /\ fantasy_rosters = {}
  /\ batting_stats = NoPlayerStats
  /\ pitching_stats = NoPlayerStats
  /\ other_rows = OtherRowsTable[1]
  /\ pc = "idle"
  /\ league_avgs = EmptyDict
  /\ \E b \in BreakdownArgs, S \in SUBSET StrengthArgCats,
        W \in SUBSET WeaknessArgCats :
       analysis = Args(b, FilterSeq(CategoryOrder, S), FilterSeq(CategoryOrder, W))
  /\ previous = NoPrevious
  /\ standings = NoStandings
  /\ calls = NoCalls

GenerateRecommendations ==
  /\ pc = "idle"
  /\ analysis.status = "args"
  /\ analysis' =
       [analysis EXCEPT
          !.status = "recommended",
          !.recommended_actions =
             generate_recommendations(analysis.roster_breakdown,
                                      analysis.team_strengths,
                                      analysis.team_weaknesses)]
  /\ pc' = "returned"
  /\ UNCHANGED <<store, league_avgs, previous, standings, calls>>

NextRecommend == GenerateRecommendations

SpecRecommend == InitRecommend /\ [][NextRecommend]_vars

(***************************************************************************)
(* NFBCManualImporter.project_team_standings                               *)
(***************************************************************************)
NumLeagues == 2
MaxTeamsBothCalls == 1
LeagueIds == 1..NumLeagues

\* fantasy_teams.league_id: every team row of the model is in league 1.
team_league(t) == 1

\* cursor.fetchall() of the team query: the ids are numbered in the order
\* in which the query returns the rows.
RECURSIVE AscendingSeq(_)
AscendingSeq(S) ==
  IF S = {} THEN <<>>
  ELSE LET m == CHOOSE x \in S : \A y \in S : x <= y
       IN  <<m>> \o AscendingSeq(S \ {m})

\* teams = {row[0]: row[1] ...}: the team ids in insertion order; the names
\* are team_names.
LeagueTeams(league_id) ==
  AscendingSeq({t \in fantasy_teams : team_league(t) = league_id})

\* teams.values()
TeamNameList(teams) == [i \in 1..Len(teams) |-> team_names[teams[i]]]

BattingCats == <<"avg", "hr", "r", "rbi", "sb">>
PitchingCatsOrder == <<"era", "whip", "k", "w", "sv">>
StandingsCats == BattingCats \o PitchingCatsOrder
StatType(cat) == IF cat \in Range(BattingCats) THEN "batting" ELSE "pitching"
RateCats == {"avg", "era", "whip"}

\* The column of batting_stats or pitching_stats a category is read from.
StatColumn(cat) ==
  CASE cat = "avg" -> "batting_avg"
    [] cat = "hr" -> "home_runs"
    [] cat = "r" -> "runs"
    [] cat = "rbi" -> "rbi"
    [] cat = "sb" -> "stolen_bases"
    [] cat = "era" -> "era"
    [] cat = "whip" -> "whip"
    [] cat = "k" -> "strikeouts"
    [] cat = "w" -> "wins"
    [] cat = "sv" -> "saves"

\* A rate is the fraction num / den (den > 0) of thousandths (avg) or
\* hundredths (era, whip).
Rat(num, den) == [num |-> num, den |-> den]
RatLess(a, b) == a.num * b.den < b.num * a.den
RatEq(a, b) == a.num * b.den = b.num * a.den

ZeroTeamStats ==
  [batting |-> [avg |-> Rat(0, 1), hr |-> 0, r |-> 0, rbi |-> 0, sb |-> 0],
   pitching |-> [era |-> Rat(0, 1), whip |-> Rat(0, 1), k |-> 0, w |-> 0, sv |-> 0]]

\* The active roster players of a team with players.position != 'P', and
\* those with players.position = 'P'.
StandingsBatters(team_id) ==
  {r[2] : r \in {q \in fantasy_rosters : q[1] = team_id /\ player_position(q[2]) # "P"}}
StandingsPitchers(team_id) ==
  {r[2] : r \in {q \in fantasy_rosters : q[1] = team_id /\ player_position(q[2]) = "P"}}

\* Sum of a column over the players whose stats query returns a row
\* ("if stats:").
StatSum(stats, players, col) ==
  SetSum([p \in players |-> IF stats[p] = NoStats THEN 0 ELSE stats[p][col]],
         players)

\* += of the players' values, then /= len(players) when len(players) > 0.
AddRate(old, stats, players, col) ==
  LET n == Cardinality(players)
      sum == Rat(old.num + StatSum(stats, players, col) * old.den, old.den)
  IN  IF n > 0 THEN Rat(sum.num, sum.den * n) ELSE sum

\* The body of the loop over teams.items() for one team.
AddTeamStats(entry, team_id) ==
  LET b == StandingsBatters(team_id)
      p == StandingsPitchers(team_id)
  IN  [batting |->
         DictOf([cat \in Range(BattingCats) |->
                   IF cat \in RateCats
                   THEN AddRate(entry.batting[cat], batting_stats, b, StatColumn(cat))
                   ELSE entry.batting[cat] + StatSum(batting_stats, b, StatColumn(cat))],
                Range(BattingCats)),
       pitching |->
         DictOf([cat \in Range(PitchingCatsOrder) |->
                   IF cat \in RateCats
                   THEN AddRate(entry.pitching[cat], pitching_stats, p, StatColumn(cat))
                   ELSE entry.pitching[cat] + StatSum(pitching_stats, p, StatColumn(cat))],
                Range(PitchingCatsOrder))]

\* results, keyed by team name, after the loop over the teams.
RECURSIVE RawStats(_, _)
RawStats(teams, results) ==
  IF teams = <<>> THEN results
  ELSE LET name == team_names[Head(teams)]
       IN  RawStats(Tail(teams),
                    [results EXCEPT ![name] = AddTeamStats(@, Head(teams))])

\* results[t][stat_type][cat] as a fraction.
StatValue(results, name, cat) ==
  LET v == results[name][StatType(cat)][cat]
  IN  IF cat \in RateCats THEN v ELSE Rat(v, 1)

\* Whether key a is placed before key b by the sort of a category:
\* ascending for era and whip, reverse=True for the others.
LowerIsBetter(cat) == cat \in {"era", "whip"}

\* Every category sorted with reverse=True.
SortsBefore_AllDescending(cat, a, b) == RatLess(b, a)

SortsBefore(cat, a, b) == IF LowerIsBetter(cat) THEN RatLess(a, b) ELSE RatLess(b, a)

\* enumerate(sorted_teams, 1) for one category: element i of the result is
\* the number given to element i of teams.values().  The sort is stable:
\* elements with equal keys keep their order (also under reverse=True).
CategoryPlaces(results, names, cat) ==
  LET n == Len(names)
      key == ListOf([i \in 1..n |-> StatValue(results, names[i], cat)], n)
  IN  ListOf([i \in 1..n |->
                1 + Cardinality({j \in 1..n : SortsBefore(cat, key[j], key[i])})
                  + Cardinality({j \in 1..(i - 1) : RatEq(key[j], key[i])})],
             n)

\* The places of all ten categories, in the order of StandingsCats.
AllPlaces(results, names) ==
  ListOf([k \in 1..Len(StandingsCats) |->
            CategoryPlaces(results, names, StandingsCats[k])],
         Len(StandingsCats))

CatIndex(cat) == CHOOSE k \in 1..Len(StandingsCats) : StandingsCats[k] = cat

Max(S) == CHOOSE x \in S : \A y \in S : y <= x

\* rankings[team_name][cat] = i: the last assignment to the name stays.
RankOf(places, names, name) ==
  Max({places[i] : i \in {j \in 1..Len(names) : names[j] = name}})

\* rankings[team_name]['total'] += i, for every element of the sorted list.
PointsOf(places, names, name) ==
  SetSum(places, {j \in 1..Len(names) : names[j] = name})

\* The rankings dictionary: per team name the rank of each category and
\* 'total'.
Rankings(results, names) ==
  LET places == AllPlaces(results, names)
      total == [name \in Range(names) |->
                  SeqSum(ListOf([k \in 1..Len(places) |->
                                   PointsOf(places[k], names, name)],
                                Len(places)))]
  IN  DictOf([name \in Range(names) |->
                DictOf([key \in Range(StandingsCats) \cup {"total"} |->
                          IF key = "total" THEN total[name]
                          ELSE RankOf(places[CatIndex(key)], names, name)],
                       Range(StandingsCats) \cup {"total"})],
             Range(names))

\* The keys of a dictionary built from a list, in insertion order.
RECURSIVE DictKeys(_)
DictKeys(names) ==
  IF names = <<>> THEN <<>>
  ELSE LET front == DictKeys(SubSeq(names, 1, Len(names) - 1))
           last == names[Len(names)]
       IN  IF last \in Range(front) THEN front ELSE Append(front, last)

\* sorted(rankings.items(), key=total, reverse=True)
FinalStandings(rankings, names) ==
  LET keys == DictKeys(names)
      n == Len(keys)
      total == ListOf([i \in 1..n |-> rankings[keys[i]]["total"]], n)
      place == ListOf([i \in 1..n |->
                         1 + Cardinality({j \in 1..n : total[j] > total[i]})
                           + Cardinality({j \in 1..(i - 1) : total[j] = total[i]})],
                      n)
  IN  ListOf([k \in 1..n |->
                LET i == CHOOSE j \in 1..n : place[j] = k
                IN  <<keys[i], rankings[keys[i]]>>],
             n)

StandingsResult(status, league_id, raw_stats, rankings, final) ==
  [status |-> status, league_id |-> league_id, raw_stats |-> raw_stats,
   rankings |-> rankings, standings |-> final]

\* status "empty" is the {} the function returns when the league has no
\* teams or a query raises.
EmptyStandings(league_id) == StandingsResult("empty", league_id, <<>>, <<>>, <<>>)

\* The function without "if not teams: return {}".
project_team_standings_NoEmptyCheck(league_id, query_fails) ==
  LET teams == LeagueTeams(league_id)
      names == TeamNameList(teams)
      results == RawStats(teams, DictOf([name \in Range(names) |-> ZeroTeamStats],
                                        Range(names)))
      rankings == Rankings(results, names)
  IN  IF query_fails
      THEN EmptyStandings(league_id)
      ELSE StandingsResult("ok", league_id, results, rankings,
                           FinalStandings(rankings, names))

project_team_standings(league_id, query_fails) ==
  LET teams == LeagueTeams(league_id)
      names == TeamNameList(teams)
      results == RawStats(teams, DictOf([name \in Range(names) |-> ZeroTeamStats],
                                        Range(names)))
      rankings == Rankings(results, names)
  IN  IF query_fails \/ teams = <<>>
      THEN EmptyStandings(league_id)
      ELSE StandingsResult("ok", league_id, results, rankings,
                           FinalStandings(rankings, names))

\* The stores the standings are projected from: a league of 0 to
\* NumLeagueTeams teams, each player on at most one roster.  Only the
\* equality of team names matters, so team t takes one of the first t names;
\* players of one type differ only in their stats, so of two batters (or two
\* pitchers) the one with the smaller id is on the team with the smaller id
\* (0 is no team); the stats of a player on no roster are never read, so
\* such a player has none.
InitStandings ==
  /\ fantasy_teams \in {1..n : n \in 0..NumLeagueTeams}
  /\ team_names \in [fantasy_teams -> Range(TeamNameTable)]
  /\ \A t \in fantasy_teams : team_names[t] \in {TeamNameTable[i] : i \in 1..t}
  /\ \E on \in [PlayerIds -> fantasy_teams \cup {0}] :
       /\ \A p, q \in PlayerIds :
            (p < q /\ player_type(p) = player_type(q)) => on[p] <= on[q]
       /\ fantasy_rosters =
            {<<on[p], p, IF player_type(p) = "batter" THEN "OF" ELSE "RP">> :
               p \in {q \in PlayerIds : on[q] # 0}}
  /\ batting_stats \in
       [PlayerIds -> {BattingRowTable[i] : i \in 1..NumStandingsRows} \cup {NoStats}]
  /\ \A p \in PlayerIds : player_type(p) = "pitcher" => batting_stats[p] = NoStats
  /\ pitching_stats \in
       [PlayerIds -> {PitchingRowTable[i] : i \in 1..NumStandingsRows} \cup {NoStats}]
  /\ \A p \in PlayerIds : player_type(p) = "batter" => pitching_stats[p] = NoStats
  /\ \A p \in PlayerIds :
       (\A r \in fantasy_rosters : r[2] # p)
         => batting_stats[p] = NoStats /\ pitching_stats[p] = NoStats
  /\ other_rows = OtherRowsTable[1]
  /\ pc = "idle"
  /\ league_avgs = EmptyDict
  /\ analysis = NoCall
  /\ previous = NoPrevious
  /\ standings = NoStandings
  /\ calls = NoCalls

\* A call of project_team_standings, from its first query to its return;
\* query_fails says whether one of its queries raises.  The caller may still
\* hold the analysis of an earlier analyze_team call.
ProjectTeamStandings(league_id, query_fails) ==
  /\ standings = NoStandings
  /\ standings' = project_team_standings(league_id, query_fails)
  /\ pc' = "returned"
  /\ UNCHANGED <<store, league_avgs, analysis, previous, calls>>

NextStandings ==
  \/ \E l \in LeagueIds, f \in BOOLEAN : ProjectTeamStandings(l, f)
  \/ TakeResult

SpecStandings == InitStandings /\ [][NextStandings]_vars

(***************************************************************************)
(* A caller that calls analyze_team a second time for the same team while  *)
(* it still holds the first analysis.  No writer runs between the calls    *)
(* (writers need pc = "idle").                                             *)
(***************************************************************************)
Kept(first, avgs) == [status |-> "kept", analysis |-> first, league_avgs |-> avgs]

\* A second call whose recommendation list is appended to the list of the
\* first call.
AnalyzeAgain_Accumulating(query_fails) ==
  /\ pc = "returned"
  /\ analysis.status \in {"ok", "absent", "raised"}
  /\ previous = NoPrevious
  /\ previous' = Kept(analysis, league_avgs)
  /\ league_avgs' = IF get_team_by_id(analysis.team_id)
                    THEN get_league_averages(query_fails) ELSE EmptyDict
  /\ analysis' =
       [analyze_team(analysis.team_id, league_avgs') EXCEPT
          !.recommended_actions = analysis.recommended_actions \o @]
  /\ UNCHANGED <<store, pc, standings, calls>>

AnalyzeAgain(query_fails) ==
  /\ pc = "returned"
  /\ analysis.status \in {"ok", "absent", "raised"}
  /\ previous = NoPrevious
  /\ previous' = Kept(analysis, league_avgs)
  /\ league_avgs' = IF get_team_by_id(analysis.team_id)
                    THEN get_league_averages(query_fails) ELSE EmptyDict
  /\ analysis' = analyze_team(analysis.team_id, league_avgs')
  /\ UNCHANGED <<store, pc, standings, calls>>

NextRepeat ==
  \/ \E t \in fantasy_teams, p \in PlayerIds, pos \in FantasyPositions :
       add_player_to_team(t, p, pos) /\ UNCHANGED calls
  \/ \E t \in fantasy_teams, p \in PlayerIds :
       remove_player_from_team(t, p) /\ UNCHANGED calls
  \/ \E t \in TeamIds, f \in BOOLEAN : AnalyzeTeam(t, f)
  \/ \E f \in BOOLEAN : AnalyzeAgain(f)
  \/ TakeResult

SpecRepeat == Init /\ [][NextRepeat]_vars

(***************************************************************************)
(* A caller that asks for the analysis of a team and then, still holding   *)
(* it, for the projected standings of a league, on stores of at most       *)
(* MaxTeamsBothCalls teams.                                                *)
(***************************************************************************)
InitBothCalls == InitStandings /\ Cardinality(fantasy_teams) <= MaxTeamsBothCalls

NextBothCalls ==
  \/ \E t \in TeamIds, f \in BOOLEAN : AnalyzeTeam(t, f)
  \/ \E l \in LeagueIds, f \in BOOLEAN : ProjectTeamStandings(l, f)
  \/ TakeResult

SpecBothCalls == InitBothCalls /\ [][NextBothCalls]_vars

Recommended == pc = "returned" /\ analysis.status \in {"ok", "recommended"}

\* The two conditions of the cross-discipline rules, counted on the lists
\* the call was given.
PitchingForHittingHolds ==
  /\ Cardinality(Range(analysis.team_strengths) \cap pitching_cats) >= 3
  /\ Cardinality(Range(analysis.team_weaknesses) \cap hitting_cats) >= 2

HittingForPitchingHolds ==
  /\ Cardinality(Range(analysis.team_strengths) \cap hitting_cats) >= 3
  /\ Cardinality(Range(analysis.team_weaknesses) \cap pitching_cats) >= 2

\* C11: no recommendation list contains both 'Consider trading pitching for
\* hitting help' and 'Consider trading hitting for pitching help'; when the
\* conditions of both rules hold, the pitching-for-hitting recommendation is
\* emitted and the hitting-for-pitching one is not.
C11_CrossTradeExclusive ==
  Recommended =>
    /\ ~(RecPitchingForHitting \in Range(Recs) /\ RecHittingForPitching \in Range(Recs))
    /\ (PitchingForHittingHolds /\ HittingForPitchingHolds) =>
         /\ RecPitchingForHitting \in Range(Recs)
         /\ RecHittingForPitching \notin Range(Recs)

C11_Witness ==
  /\ Recommended
  /\ PitchingForHittingHolds
  /\ HittingForPitchingHolds
  /\ RecPitchingForHitting \in Range(Recs)


(***************************************************************************)
(* The call of project_team_standings that has just returned, and the      *)
(* teams of the league it was called for.                                  *)
(***************************************************************************)
StandingsOk == pc = "returned" /\ standings.status = "ok"

League == {t \in fantasy_teams : team_league(t) = standings.league_id}
LeagueSize == Cardinality(League)

\* The value the call ranked a team by, and the rank it recorded for it.
TeamValue(t, cat) == StatValue(standings.raw_stats, team_names[t], cat)
TeamRank(t, cat) == standings.rankings[team_names[t]][cat]

\* a is a better value than b: lower for era and whip, higher otherwise.
BetterValue(cat, a, b) ==
  IF cat \in {"era", "whip"} THEN RatLess(a, b) ELSE RatLess(b, a)

IsWorst(t, cat) ==
  \A u \in League : ~BetterValue(cat, TeamValue(t, cat), TeamValue(u, cat))
IsBest(t, cat) ==
  \A u \in League : ~BetterValue(cat, TeamValue(u, cat), TeamValue(t, cat))

\* C12: in every category a team with the worst value has rank 1 and a team
\* with the best value has rank N (best is lowest for era and whip, highest
\* otherwise); in a league of two teams the team with the lower ERA has ERA
\* rank 2 and the other ERA rank 1.
C12_WorstRankedOne ==
  StandingsOk =>
    \A k \in 1..Len(StandingsCats) :
      LET cat == StandingsCats[k]
      IN  /\ \E t \in League : IsWorst(t, cat) /\ TeamRank(t, cat) = 1
          /\ \E t \in League : IsBest(t, cat) /\ TeamRank(t, cat) = LeagueSize

RankedNames == DOMAIN standings.rankings

\* C14: in every category the ranks recorded in the rankings map are N
\* distinct integers in 1..N, one per team of the league, and their sum is
\* N(N+1)/2.
C14_RanksArePermutation ==
  StandingsOk =>
    \A k \in 1..Len(StandingsCats) :
      LET cat == StandingsCats[k]
          rank == [name \in RankedNames |-> standings.rankings[name][cat]]
      IN  /\ Cardinality(RankedNames) = LeagueSize
          /\ {rank[name] : name \in RankedNames} = 1..LeagueSize
          /\ 2 * SetSum(rank, RankedNames) = LeagueSize * (LeagueSize + 1)

\* C15: for every team of the league, 'total' in its rankings entry equals
\* the sum of the ten category ranks of the same entry.
C15_TotalIsSumOfRanks ==
  StandingsOk =>
    \A t \in League :
      LET entry == standings.rankings[team_names[t]]
      IN  entry["total"] =
            SeqSum([k \in 1..Len(StandingsCats) |-> entry[StandingsCats[k]]])

\* C16: the standings list has every team of the league exactly once and is
\* ordered by non-increasing 'total'.
C16_StandingsOrdered ==
  StandingsOk =>
    LET list == standings.standings
    IN  /\ Len(list) = LeagueSize
        /\ {list[i][1] : i \in 1..Len(list)} = {team_names[t] : t \in League}
        /\ \A i, j \in 1..Len(list) : i # j => list[i][1] # list[j][1]
        /\ \A i \in 1..Len(list) : list[i][2] = standings.rankings[list[i][1]]
        /\ \A i, j \in 1..Len(list) :
             i < j => list[i][2]["total"] >= list[j][2]["total"]


(***************************************************************************)
(* The weighted rates of the call that has just returned (with an analysis *)
(* or by raising).                                                         *)
(***************************************************************************)
CategoriesRan == pc = "returned" /\ analysis.status \in {"ok", "raised"}

\* The rate is a number and lies between the smallest and the largest of
\* the players' rates.
WithinPlayerRates(rows, rate, weight) ==
  LET team == WeightedRate(rows, rate, weight)
  IN  /\ team.den > 0
      /\ \E i \in 1..Len(rows) : rows[i].stats[rate] * team.den <= team.num
      /\ \E i \in 1..Len(rows) : team.num <= rows[i].stats[rate] * team.den

\* C17: for a non-empty list of batters with stats the team batting average
\* weighted by plate appearances, and for a non-empty list of pitchers with
\* stats the team ERA and WHIP weighted by innings pitched, lie between the
\* minimum and the maximum of the players' rates.
C17_WeightedRateWithinRange ==
  CategoriesRan =>
    /\ CallBatters # <<>> =>
         WithinPlayerRates(CallBatters, "batting_avg", "plate_appearances")
    /\ CallPitchers # <<>> =>
         /\ WithinPlayerRates(CallPitchers, "era", "innings_pitched")
         /\ WithinPlayerRates(CallPitchers, "whip", "innings_pitched")

ZeroBattingWeight ==
  CallBatters # <<>> /\ ColumnSum(CallBatters, "plate_appearances") = 0
ZeroPitchingWeight ==
  CallPitchers # <<>> /\ ColumnSum(CallPitchers, "innings_pitched") = 0

\* C18: when every batter has 0 plate appearances, or every pitcher 0
\* innings pitched, the team rate is taken as 0 and analyze_team returns an
\* analysis whose ratings are those of a team rate of 0.
C18_ZeroWeightRateIsZero ==
  (pc = "returned" /\ analysis.status \in {"ok", "raised"}
     /\ (ZeroBattingWeight \/ ZeroPitchingWeight)) =>
    /\ analysis.status = "ok"
    /\ \A c \in DOMAIN Ratings : Ratings[c] \in 1..10
    /\ (ZeroBattingWeight /\ "batting_avg" \in DOMAIN Ratings) =>
         Ratings["batting_avg"] = AvgRating([num |-> 0, den |-> 1], league_avgs["batting_avg"])
    /\ (ZeroPitchingWeight /\ "era" \in DOMAIN Ratings) =>
         Ratings["era"] = EraRating([num |-> 0, den |-> 1], league_avgs["era"])
    /\ (ZeroPitchingWeight /\ "whip" \in DOMAIN Ratings) =>
         Ratings["whip"] = WhipRating([num |-> 0, den |-> 1], league_avgs["whip"])


(***************************************************************************)
(* Two calls in a row.                                                     *)
(***************************************************************************)
CalledTwice == pc = "returned" /\ previous.status = "kept"

\* The league queries answered both calls, or raised in both.
SameQueryOutcome ==
  (previous.league_avgs = EmptyDict) <=> (league_avgs = EmptyDict)

AnalysisReturned == analysis.status # "none"
StandingsReturned == standings.status # "none"

UnknownTeam == analysis.team_id \notin fantasy_teams
LeagueWithoutTeams ==
  {t \in fantasy_teams : team_league(t) = standings.league_id} = {}

\* C20: analyze_team for a team id without a row in the store returns None
\* without raising, and project_team_standings for a league id without
\* teams returns the empty result without raising; neither result holds an
\* analysis or a standings structure.
C20_AbsentAndEmptyResults ==
  /\ (AnalysisReturned /\ UnknownTeam) =>
       /\ analysis.status = "absent"
       /\ analysis.roster_breakdown = NoBreakdown
       /\ analysis.category_analysis = NoRatings
       /\ analysis.team_strengths = <<>>
       /\ analysis.team_weaknesses = <<>>
       /\ analysis.recommended_actions = <<>>
  /\ (StandingsReturned /\ LeagueWithoutTeams) =>
       /\ standings.status = "empty"
       /\ standings.raw_stats = <<>>
       /\ standings.rankings = <<>>
       /\ standings.standings = <<>>

\* The caller holds both results: None for an unknown team and the empty
\* result for league 1 of a store without teams.
C20_Witness ==
  /\ AnalysisReturned
  /\ UnknownTeam
  /\ analysis.status = "absent"
  /\ StandingsReturned
  /\ standings.league_id = 1
  /\ LeagueWithoutTeams
  /\ standings.status = "empty"


(***************************************************************************)
(* analyze_team read by read.  Every read is one execute_query (or one     *)
(* cursor.execute) on a connection in the default READ COMMITTED mode: it  *)
(* sees what is committed when it runs, and nothing holds a snapshot from  *)
(* one read to the next.                                                   *)
(***************************************************************************)
ReadPlayers == 1..NumReadPlayers
ReadRows == 1..NumReadRows

NaturalPosition(p) == IF player_type(p) = "batter" THEN "OF" ELSE "RP"

InFlight(c) == calls[c].pc \notin {"idle", "returned"}

\* The analysis one call gives when all its reads see the current store
\* and none raises.
AtomicAnalysis(team_id) == analyze_team(team_id, get_league_averages(FALSE))

\* The call with the analysis of the current store added to the set, when a
\* write was committed since the last read of the call.
Seen(call) ==
  IF call.stale
  THEN [call EXCEPT !.stale = FALSE,
                    !.atomic = @ \cup {AtomicAnalysis(call.team_id)}]
  ELSE call

\* The team_data dictionary get_team_roster has built so far.
TeamData(call) ==
  [found |-> TRUE, team_id |-> call.team_id, players |-> call.players]

Finished(call, result) == [call EXCEPT !.pc = "returned", !.result = result]

\* analyze_team is entered and get_team_roster calls get_team_by_id.  Its
\* handler names psycopg2.DatabaseError in a module that does not import
\* psycopg2, so a fault of the query leaves as a NameError through
\* get_team_roster and analyze_team.  No row is None, and analyze_team
\* returns None.
FetchTeam(c, team_id, fault) ==
  /\ calls[c].pc = "idle"
  /\ LET call == [IdleCall EXCEPT
                    !.pc = "roster_query",
                    !.team_id = team_id,
                    !.faults = IF fault THEN {"team"} ELSE {},
                    !.atomic = {AtomicAnalysis(team_id)}]
     IN  calls' =
           [calls EXCEPT ![c] =
              IF fault THEN Finished(call, Raised(team_id))
              ELSE IF ~get_team_by_id(team_id)
                   THEN Finished(call, Absent(team_id))
                   ELSE call]
  /\ UNCHANGED <<store, pc, league_avgs, analysis, previous, standings>>

\* The roster query of get_team_roster, outside every try: a fault leaves
\* as the exception.  An empty roster returns the team with no players.
QueryRoster(c, fault) ==
  /\ calls[c].pc = "roster_query"
  /\ LET call == Seen(calls[c])
         roster == RosterQuery({r \in fantasy_rosters : r[1] = call.team_id})
     IN  calls' =
           [calls EXCEPT ![c] =
              IF fault
              THEN Finished([call EXCEPT !.faults = @ \cup {"roster"}],
                            Raised(call.team_id))
              ELSE [call EXCEPT
                      !.roster = roster,
                      !.pc = IF roster = <<>> THEN "batting_query"
                             ELSE "player_stats"]]
  /\ UNCHANGED <<store, pc, league_avgs, analysis, previous, standings>>

\* A stat read that appends the player to one list shared by all the calls
\* that are in their loop.
ReadPlayerStats_SharedList(c, fault) ==
  /\ calls[c].pc = "player_stats"
  /\ LET row == calls[c].roster[Len(calls[c].players) + 1]
     IN  calls' =
           [d \in Callers |->
              IF fault
              THEN IF d = c
                   THEN [Seen(calls[d]) EXCEPT !.faults = @ \cup {"stats"},
                                               !.pc = "batting_query"]
                   ELSE calls[d]
              ELSE IF calls[d].pc = "player_stats"
                   THEN [(IF d = c THEN Seen(calls[d]) ELSE calls[d]) EXCEPT
                           !.players = Append(@, PlayerDict(row)),
                           !.pc = IF Len(calls[d].players) + 1 >= Len(calls[d].roster)
                                  THEN "batting_query" ELSE "player_stats"]
                   ELSE calls[d]]
  /\ UNCHANGED <<store, pc, league_avgs, analysis, previous, standings>>

\* One turn of the loop over the roster: the stat read of the next player.
\* A fault is caught by the handler that returns team_data as it is.
ReadPlayerStats(c, fault) ==
  /\ calls[c].pc = "player_stats"
  /\ LET call == Seen(calls[c])
         row == call.roster[Len(call.players) + 1]
     IN  calls' =
           [calls EXCEPT ![c] =
              IF fault
              THEN [call EXCEPT !.faults = @ \cup {"stats"},
                                !.pc = "batting_query"]
              ELSE [call EXCEPT
                      !.players = Append(@, PlayerDict(row)),
                      !.pc = IF Len(call.players) + 1 = Len(call.roster)
                             THEN "batting_query" ELSE "player_stats"]]
  /\ UNCHANGED <<store, pc, league_avgs, analysis, previous, standings>>

\* _get_league_averages, first query.  A fault skips the second query and
\* gives {}; the analysis is then built from team_data and {}.
ReadBattingTotals(c, fault) ==
  /\ calls[c].pc = "batting_query"
  /\ LET call == Seen(calls[c])
     IN  calls' =
           [calls EXCEPT ![c] =
              IF fault
              THEN Finished([call EXCEPT !.faults = @ \cup {"batting"}],
                            build_analysis(TeamData(call), EmptyDict))
              ELSE [call EXCEPT !.batting_row = batting_query,
                                !.pc = "pitching_query"]]
  /\ UNCHANGED <<store, pc, league_avgs, analysis, previous, standings>>

\* A second query whose fault leaves the baseline of the first query in
\* place, with no pitching production.
ReadPitchingTotals_KeepsBatting(c, fault) ==
  /\ calls[c].pc = "pitching_query"
  /\ LET call == Seen(calls[c])
         no_pitching == [wins |-> 0, saves |-> 0, strikeouts |-> 0,
                         era |-> Zero, whip |-> Zero]
         avgs == combine_league_avgs(call.batting_row,
                                     IF fault THEN no_pitching
                                     ELSE pitching_query)
     IN  calls' =
           [calls EXCEPT ![c] =
              Finished([call EXCEPT
                          !.league_avgs = avgs,
                          !.faults = IF fault THEN @ \cup {"pitching"} ELSE @],
                       build_analysis(TeamData(call), avgs))]
  /\ UNCHANGED <<store, pc, league_avgs, analysis, previous, standings>>

\* _get_league_averages, second query, and the rest of analyze_team, which
\* reads nothing more.
ReadPitchingTotals(c, fault) ==
  /\ calls[c].pc = "pitching_query"
  /\ LET call == Seen(calls[c])
         avgs == IF fault THEN EmptyDict
                 ELSE combine_league_avgs(call.batting_row, pitching_query)
     IN  calls' =
           [calls EXCEPT ![c] =
              Finished([call EXCEPT
                          !.league_avgs = avgs,
                          !.faults = IF fault THEN @ \cup {"pitching"} ELSE @],
                       build_analysis(TeamData(call), avgs))]
  /\ UNCHANGED <<store, pc, league_avgs, analysis, previous, standings>>

\* The caller has the result; it can call again.
CallReturns(c) ==
  /\ calls[c].pc = "returned"
  /\ calls' = [calls EXCEPT ![c] = IdleCall]
  /\ UNCHANGED <<store, pc, league_avgs, analysis, previous, standings>>

\* A store with team 1, whose roster holds some of the read players, each
\* of them with a stat row.
InitReads ==
  /\ fantasy_teams = {1}
  /\ team_names = [t \in fantasy_teams |-> TeamNameTable[t]]
  /\ fantasy_rosters \in
       SUBSET {<<1, p, NaturalPosition(p)>> : p \in ReadPlayers}
  /\ \E row \in [ReadPlayers -> ReadRows] :
       /\ batting_stats =
            [p \in PlayerIds |->
               IF p \in ReadPlayers /\ player_type(p) = "batter"
               THEN BattingRowTable[row[p]] ELSE NoStats]
       /\ pitching_stats =
            [p \in PlayerIds |->
               IF p \in ReadPlayers /\ player_type(p) = "pitcher"
               THEN PitchingRowTable[row[p]] ELSE NoStats]
  /\ other_rows = OtherRowsTable[1]
  /\ pc = "idle"
  /\ league_avgs = EmptyDict
  /\ analysis = NoCall
  /\ previous = NoPrevious
  /\ standings = NoStandings
  /\ calls = NoCalls

\* One caller whose reads can raise; nothing writes.
NextFaults ==
  \/ \E t \in TeamIds, f \in BOOLEAN : FetchTeam(1, t, f)
  \/ \E f \in BOOLEAN : QueryRoster(1, f)
  \/ \E f \in BOOLEAN : ReadPlayerStats(1, f)
  \/ \E f \in BOOLEAN : ReadBattingTotals(1, f)
  \/ \E f \in BOOLEAN : ReadPitchingTotals(1, f)
  \/ CallReturns(1)

SpecFaults == InitReads /\ [][NextFaults]_vars


(***************************************************************************)
(* Writers that commit while analyze_team calls are between two reads.     *)
(***************************************************************************)
\* What a committed write leaves in the calls that are under way: a count
\* and the stale mark.  At most MaxWrites writes are committed during one
\* call, and at most one between two reads of a call.
AfterWrite ==
  /\ \A c \in Callers :
       InFlight(c) => calls[c].writes < MaxWrites /\ ~calls[c].stale
  /\ calls' =
      [c \in Callers |->
         IF InFlight(c)
         THEN [calls[c] EXCEPT !.writes = @ + 1, !.stale = TRUE]
         ELSE calls[c]]

\* A stat update: the row of a player is replaced by another row.  The
\* stat tables are filled from outside this repository; the update is the
\* environment of the reads at team_data.py:173-199.
stat_update(player_id, row) ==
  /\ IF player_type(player_id) = "batter"
     THEN /\ batting_stats[player_id] # BattingRowTable[row]
          /\ batting_stats' =
               [batting_stats EXCEPT ![player_id] = BattingRowTable[row]]
          /\ UNCHANGED pitching_stats
     ELSE /\ pitching_stats[player_id] # PitchingRowTable[row]
          /\ pitching_stats' =
               [pitching_stats EXCEPT ![player_id] = PitchingRowTable[row]]
          /\ UNCHANGED batting_stats
  /\ UNCHANGED <<fantasy_teams, team_names, fantasy_rosters, other_rows, pc,
                 league_avgs, analysis, previous, standings>>

\* Callers on their own threads, reads that all succeed, and writers that
\* commit at any moment.
NextConcurrent ==
  \/ \E c \in Callers, t \in TeamIds : FetchTeam(c, t, FALSE)
  \/ \E c \in Callers : QueryRoster(c, FALSE)
  \/ \E c \in Callers : ReadPlayerStats(c, FALSE)
  \/ \E c \in Callers : ReadBattingTotals(c, FALSE)
  \/ \E c \in Callers : ReadPitchingTotals(c, FALSE)
  \/ \E c \in Callers : CallReturns(c)
  \/ \E p \in ReadPlayers :
       add_player_to_team(1, p, NaturalPosition(p)) /\ AfterWrite
  \/ \E p \in ReadPlayers : remove_player_from_team(1, p) /\ AfterWrite
  \/ \E p \in ReadPlayers, row \in ReadRows : stat_update(p, row) /\ AfterWrite

SpecConcurrent == InitReads /\ [][NextConcurrent]_vars

(***************************************************************************)
(* Faults of the reads of analyze_team.                                    *)
(***************************************************************************)
CallDone(c) == calls[c].pc = "returned"

RosterFaults == {"team", "roster", "stats"}

\* C21: when the team fetch, the roster query or a per-player stat read of
\* an analyze_team call faults, the caller receives None (an absent result)
\* and never an analysis or an exception; the check of the standings half
\* is part of C22 and C20.
C21_FaultGivesAbsent ==
  \A c \in Callers :
    (CallDone(c) /\ calls[c].faults \cap RosterFaults # {})
      => calls[c].result.status = "absent"

\* C22: when a stat read faults after some of the roster players were
\* loaded, analyze_team does not return an analysis computed from the
\* players loaded before the fault.
C22_NeverPartialAnalysis ==
  \A c \in Callers :
    (/\ CallDone(c)
     /\ "stats" \in calls[c].faults
     /\ calls[c].players # <<>>
     /\ Len(calls[c].players) < Len(calls[c].roster))
      => calls[c].result.status # "ok"


TotalsFaults == {"batting", "pitching"}

\* C23: when the batting or the pitching league-totals query of a call
\* faults, the baseline is empty and the analysis that comes back has no
\* rating, no strength and no weakness: nothing is rated against a zero
\* baseline nor against the row of the query that succeeded.
C23_TotalsFaultRatesNothing ==
  \A c \in Callers :
    (CallDone(c) /\ calls[c].faults \cap TotalsFaults # {})
      => /\ calls[c].league_avgs = EmptyDict
         /\ calls[c].result.status = "ok"
         /\ calls[c].result.category_analysis = NoRatings
         /\ calls[c].result.team_strengths = <<>>
         /\ calls[c].result.team_weaknesses = <<>>

\* The batting query gave a row with production, the pitching query raised,
\* and the team has a batter with stats.
C23_Witness ==
  \E c \in Callers :
    /\ CallDone(c)
    /\ calls[c].faults = {"pitching"}
    /\ calls[c].batting_row # <<>>
    /\ calls[c].batting_row.home_runs > 0
    /\ \E i \in 1..Len(calls[c].players) : IsBatter(calls[c].players[i])
    /\ calls[c].result.status = "ok"


(***************************************************************************)
(* Ties in the standings.                                                  *)
(***************************************************************************)
TiedIn(cat, t, u) == RatEq(TeamValue(t, cat), TeamValue(u, cat))

DistinctNames ==
  \A t, u \in League : t # u => team_names[t] # team_names[u]

\* C24: teams with equal values in a category get distinct ranks, the team
\* fetched first the smaller one, and the ranks of the tied teams are
\* consecutive (no team with another value is ranked between them), for
\* era and whip as for the descending categories.
C24_TiesRankedInFetchOrder ==
  StandingsOk =>
    \A k \in 1..Len(StandingsCats) : \A t, u \in League :
      LET cat == StandingsCats[k]
      IN  (t < u /\ TiedIn(cat, t, u))
            => /\ TeamRank(t, cat) < TeamRank(u, cat)
               /\ \A v \in League :
                    (TeamRank(t, cat) < TeamRank(v, cat)
                       /\ TeamRank(v, cat) < TeamRank(u, cat))
                      => TiedIn(cat, t, v)

\* The same for leagues whose team names are all different.
TiesRankedInFetchOrderOfDistinctNames ==
  (StandingsOk /\ DistinctNames) => C24_TiesRankedInFetchOrder


(***************************************************************************)
(* The players behind the league baseline.                                 *)
(***************************************************************************)
OnRoster(p) == \E r \in fantasy_rosters : r[2] = p

RosteredBatters == {p \in BattingPlayers : OnRoster(p)}
RosteredPitchers == {p \in PitchingPlayers : OnRoster(p)}

RosteredBattingSum(col) ==
  SetSum([p \in RosteredBatters |-> batting_stats[p][col]], RosteredBatters)
    + other_rows[col]

RosteredPitchingSum(col) ==
  SetSum([p \in RosteredPitchers |-> pitching_stats[p][col]], RosteredPitchers)
    + other_rows[col]

\* The baseline of the stat rows of the players that are on a roster (the
\* rows behind other_rows counted as such).
RosteredBaseline ==
  [home_runs |-> PerTeam(RosteredBattingSum("home_runs")),
   rbi |-> PerTeam(RosteredBattingSum("rbi")),
   stolen_bases |-> PerTeam(RosteredBattingSum("stolen_bases")),
   batting_avg |-> PlainAvg(RosteredBattingSum("batting_avg"),
                            Cardinality(RosteredBatters) + other_rows.n_bat),
   wins |-> PerTeam(RosteredPitchingSum("wins")),
   saves |-> PerTeam(RosteredPitchingSum("saves")),
   strikeouts |-> PerTeam(RosteredPitchingSum("strikeouts")),
   era |-> PlainAvg(RosteredPitchingSum("era"),
                    Cardinality(RosteredPitchers) + other_rows.n_pit),
   whip |-> PlainAvg(RosteredPitchingSum("whip"),
                     Cardinality(RosteredPitchers) + other_rows.n_pit)]

\* C25: the baseline an analyze_team call used is the one of the rostered
\* players: the stat rows of players on no roster change none of its values.
C25_BaselineFromRosteredOnly ==
  (pc = "returned" /\ analysis.status \in {"ok", "raised"}
     /\ league_avgs # EmptyDict)
    => \A c \in DOMAIN league_avgs :
         RatEq(league_avgs[c], RosteredBaseline[c])


(***************************************************************************)
(* Reads without a snapshot.                                               *)
(***************************************************************************)
\* C26: a call during which no write was committed returns the analysis of
\* the store as it was at call time, whether or not other analyze_team
\* calls ran during it; only a call with a write between its reads can
\* return something else.
C26_NoWriteMeansAtomic ==
  \A c \in Callers :
    (CallDone(c) /\ calls[c].writes = 0)
      => /\ Cardinality(calls[c].atomic) = 1
         /\ calls[c].result \in calls[c].atomic

\* A call that returned, without a write, while another call is between
\* its reads, and that rated something.
C26_Witness ==
  \E c \in Callers :
    /\ CallDone(c)
    /\ calls[c].writes = 0
    /\ \E d \in Callers \ {c} : InFlight(d)
    /\ calls[c].result.status = "ok"
    /\ calls[c].result.category_analysis # NoRatings

\* A call that returned an analysis which no store state of the call gives.
TornAnalysisReturned ==
  \E c \in Callers :
    /\ CallDone(c)
    /\ calls[c].writes > 0
    /\ calls[c].result \notin calls[c].atomic


(***************************************************************************)
(* What the counting formula makes impossible.                             *)
(***************************************************************************)
Weaknesses == Range(analysis.team_weaknesses)
Strengths == Range(analysis.team_strengths)

\* C27: every counting category that is rated is rated from 5 to 10, no
\* counting category is among the weaknesses, and neither the stolen-bases
\* nor the closers recommendation is in the list of an analysis.
C27_CountingNeverWeak ==
  ReturnedOk =>
    /\ \A c \in CountingCategories \cap DOMAIN Ratings :
         Ratings[c] >= 5 /\ Ratings[c] <= 10
    /\ Weaknesses \cap CountingCategories = {}
    /\ RecSpeed \notin Range(Recs)
    /\ RecClosers \notin Range(Recs)

\* A team without a stolen base and without a save, both rated (5) against
\* a nonzero baseline.
C27_Witness ==
  /\ ReturnedOk
  /\ {"stolen_bases", "saves"} \subseteq DOMAIN Ratings
  /\ Ratings["stolen_bases"] = 5
  /\ Ratings["saves"] = 5
  /\ TeamTotal("stolen_bases") = 0
  /\ TeamTotal("saves") = 0

\* C28: an analysis never has two hitting categories among its weaknesses
\* (only batting_avg can be one) and never recommends trading pitching for
\* hitting help.
C28_NeverPitchingForHitting ==
  ReturnedOk =>
    /\ Weaknesses \cap hitting_cats \subseteq {"batting_avg"}
    /\ RecPitchingForHitting \notin Range(Recs)

\* era and whip weak, three hitting strengths, and the recommendation to
\* trade hitting for pitching help in the list.
C28_Witness ==
  /\ ReturnedOk
  /\ {"era", "whip"} \subseteq Weaknesses
  /\ Cardinality(Strengths \cap hitting_cats) >= 3
  /\ RecHittingForPitching \in Range(Recs)


(***************************************************************************)
(* The rate categories of the standings.                                   *)
(***************************************************************************)
RatePlayers(t, cat) ==
  IF StatType(cat) = "batting" THEN StandingsBatters(t) ELSE StandingsPitchers(t)

\* The sum of the rate over the players of the type that have a stats row,
\* over the number of all rostered players of the type; 0 without any.
ExpectedRate(t, cat) ==
  LET players == RatePlayers(t, cat)
      stats == IF StatType(cat) = "batting" THEN batting_stats ELSE pitching_stats
      with_row == {p \in players : stats[p] # NoStats}
  IN  IF players = {} THEN Rat(0, 1)
      ELSE Rat(SetSum([p \in with_row |-> stats[p][StatColumn(cat)]], with_row),
               Cardinality(players))

PlacedFirstAmongPositive(t, cat) ==
  \A u \in League :
    RatLess(Rat(0, 1), TeamValue(u, cat)) => TeamRank(t, cat) < TeamRank(u, cat)

\* C29: a team's avg, era and whip are the sum of the rates of its players
\* with a stats row divided by the number of all its rostered players of
\* the type, 0 without such players; a team without pitchers has era 0 and
\* whip 0 and is ranked before every team with a positive era or whip.
C29_RatesOverAllRostered ==
  StandingsOk =>
    \A t \in League :
      /\ \A cat \in RateCats : RatEq(TeamValue(t, cat), ExpectedRate(t, cat))
      /\ StandingsPitchers(t) = {}
           => /\ RatEq(TeamValue(t, "era"), Rat(0, 1))
              /\ RatEq(TeamValue(t, "whip"), Rat(0, 1))
              /\ PlacedFirstAmongPositive(t, "era")
              /\ PlacedFirstAmongPositive(t, "whip")

\* The same for leagues whose team names are all different.
RatesOverAllRosteredOfDistinctNames ==
  (StandingsOk /\ DistinctNames) => C29_RatesOverAllRostered

\* A league with a team without pitchers, a team with a positive era, and a
\* team with two pitchers of which one has no stats row.
RatesOfDistinctNamesWitness ==
  /\ StandingsOk
  /\ DistinctNames
  /\ \E t, u, v \in League :
       /\ StandingsPitchers(t) = {}
       /\ RatLess(Rat(0, 1), TeamValue(u, "era"))
       /\ Cardinality(StandingsPitchers(v)) = 2
       /\ \E p, q \in StandingsPitchers(v) :
            pitching_stats[p] = NoStats /\ pitching_stats[q] # NoStats


(***************************************************************************)
(* Players without a stats row.                                            *)
(***************************************************************************)
LoadedPlayers == get_team_roster(analysis.team_id).players

BreakdownTotal ==
  SetSum(analysis.roster_breakdown, DOMAIN analysis.roster_breakdown)

\* C30: a hitting category is rated only when a roster player has a batting
\* stats row and a pitching category only when one has a pitching stats
\* row, whatever the baseline; the roster breakdown counts every roster
\* player loaded, with or without a stats row.
C30_RatedOnlyWithStatRows ==
  ReturnedOk =>
    /\ (DOMAIN Ratings \cap hitting_cats # {}) => CallBatters # <<>>
    /\ (DOMAIN Ratings \cap pitching_cats # {}) => CallPitchers # <<>>
    /\ BreakdownTotal = Len(LoadedPlayers)

\* A team whose only batter has no stats row: no hitting category is rated
\* although the hitting baselines are nonzero, the pitching categories are
\* rated, and the batter is counted in the breakdown.
C30_Witness ==
  /\ ReturnedOk
  /\ CallBatters = <<>>
  /\ CallPitchers # <<>>
  /\ \E i \in 1..Len(LoadedPlayers) :
       LoadedPlayers[i].player_type = "batter" /\ LoadedPlayers[i].stats = NoStats
  /\ HasBaseline(league_avgs, "home_runs")
  /\ HasBaseline(league_avgs, "batting_avg")
  /\ DOMAIN Ratings \cap hitting_cats = {}
  /\ DOMAIN Ratings \cap pitching_cats # {}
  /\ BreakdownTotal = Len(LoadedPlayers)

====
